---- MODULE Spec2Model ----
(***************************************************************************)
(* Model of the WIMHF demo front end (frontend/src/App.js, the version at  *)
(* the head of the file): the load of the feature document, the            *)
(* significance classifier, the ranking of a dataset's features, the       *)
(* selection and ordering of a feature's examples, and the view state.     *)
(*                                                                         *)
(* Numbers.  p-values are integers in units of 10^-7 (0.05 is 500000, so   *)
(* 0.05 / 32 is exactly 15625); fidelity correlations are integers in      *)
(* units of 10^-2 (0.3 is 30); win rates and z-scores are integers.        *)
(* A field that is null or undefined in the JSON is the empty tuple Null,  *)
(* a present field with value v is the one-element tuple Some(v).          *)
(***************************************************************************)
EXTENDS Integers, Sequences, FiniteSets, TLC

VARIABLES
    pc,                 \* position of loadData: "mount", "fetching", "parsing", "done"
    response,           \* the response the fetch settled with (Null: none yet)
    data,               \* useState({}): the loaded document
    datasets,           \* useState([]): the dataset names shown as tabs
    selectedDataset,    \* useState(null)
    selectedFeatureId,  \* useState(null)
    sortDirection,      \* useState(SORT_DIRECTIONS.DESC)
    isLoading,          \* useState(true)
    error,              \* useState(null)
    effectPending,      \* the selected-feature effect has to run (its deps changed)
    fnName,             \* pure-function harness: the function under test
    fnIn,               \* pure-function harness: its argument
    fnOut               \* pure-function harness: its result (NotRun before the call)

vars == <<pc, response, data, datasets, selectedDataset, selectedFeatureId,
          sortDirection, isLoading, error, effectPending, fnName, fnIn, fnOut>>

appVars == <<pc, response, data, datasets, selectedDataset, selectedFeatureId,
             sortDirection, isLoading, error, effectPending>>

fnVars == <<fnName, fnIn, fnOut>>

\* ---------------------------------------------------------------- values

Null == <<>>

Some(v) == <<v>>

IsNull(x) == x = Null

\* The outcome of a call: a returned value or a thrown Error.
Return(v) == [threw |-> FALSE, value |-> v]

Throw(e) == [threw |-> TRUE, value |-> e]

Abs(n) == IF n < 0 THEN -n ELSE n

\* Extended numbers of the comparators: a finite number, an infinity or NaN.
Fin(n) == [kind |-> "fin", n |-> n]

NegInfinity == [kind |-> "-inf", n |-> 0]

PosInfinity == [kind |-> "+inf", n |-> 0]

NaN == [kind |-> "nan", n |-> 0]

\* a - b in IEEE arithmetic, for a and b finite or -Infinity.
ExtSub(a, b) ==
    IF a.kind = "-inf" /\ b.kind = "-inf" THEN NaN
    ELSE IF a.kind = "-inf" THEN NegInfinity
    ELSE IF b.kind = "-inf" THEN PosInfinity
    ELSE Fin(a.n - b.n)

\* -x
ExtNeg(x) ==
    IF x.kind = "-inf" THEN PosInfinity
    ELSE IF x.kind = "+inf" THEN NegInfinity
    ELSE IF x.kind = "nan" THEN NaN
    ELSE Fin(-x.n)

\* What Array.prototype.sort makes of a comparator's result: NaN counts as 0.
CompareSign(x) ==
    IF x.kind = "nan" THEN 0
    ELSE IF x.kind = "-inf" THEN -1
    ELSE IF x.kind = "+inf" THEN 1
    ELSE IF x.n < 0 THEN -1
    ELSE IF x.n > 0 THEN 1
    ELSE 0

Range(seq) == {seq[i] : i \in 1..Len(seq)}

\* A comparator callback on the elements of items, as the function from
\* pairs <<a, b>> to the sign Array.prototype.sort reads from its result.
Pairs(items) == Range(items) \X Range(items)

\* Array.prototype.sort is a stable sort.  One insertion step: x goes right
\* behind the last element that the comparator does not put after it.
\* The element of a set of one element.  Only({e(x) : x \in {v}}) is e(v)
\* with v evaluated once, as a const of the source is.
Only(S) == CHOOSE r \in S : TRUE

InsertSorted(sorted, x, cmp) ==
    LET before == {i \in 1..Len(sorted) : cmp[<<sorted[i], x>>] <= 0}
        p == IF before = {} THEN 0 ELSE CHOOSE i \in before : \A j \in before : j <= i
    IN  SubSeq(sorted, 1, p) \o <<x>> \o SubSeq(sorted, p + 1, Len(sorted))

\* Array.prototype.sort: a stable sort by the signs cmp gives the pairs of
\* items.  (The bound names stand for the evaluated items and cmp.)
ArraySort(items, cmp) ==
    Only({LET sorted[k \in 0..Len(its)] ==
                  IF k = 0 THEN <<>>
                  ELSE Only({InsertSorted(s, its[k], c) : s \in {sorted[k - 1]}})
          IN  sorted[Len(its)] : its \in {items}, c \in {cmp}})

\* ------------------------------------------------------------- constants

SORT_ASC == "asc"

SORT_DESC == "desc"

SIGNIFICANCE_DENOMINATOR == 32

\* 0.05 / 32 in units of 10^-7
SIGNIFICANCE_THRESHOLD == 500000 \div SIGNIFICANCE_DENOMINATOR

\* 0.3 in units of 10^-2
MIN_FIDELITY == 30

EXAMPLE_FIELDS == <<"top_5_percent", "top_2_percent", "top_examples">>

\* ------------------------------------------------ significance classifier

\* Mutant: a missing logit_p_value falls back to win_rate_p_value.
getLogitPValue_fallback(feature) ==
    IF ~IsNull(feature.logit_p_value) THEN Return(feature.logit_p_value[1])
    ELSE IF ~IsNull(feature.win_rate_p_value) THEN Return(feature.win_rate_p_value[1])
    ELSE Throw([kind |-> "missing_logit_p_value", arg |-> feature.feature_idx])

getLogitPValue(feature) ==
    IF IsNull(feature.logit_p_value)
    THEN Throw([kind |-> "missing_logit_p_value", arg |-> feature.feature_idx])
    ELSE Return(feature.logit_p_value[1])

\* Mutant: the threshold itself is not significant.
isFeatureSignificant_strict(feature) ==
    LET pValue == getLogitPValue(feature)
    IN  IF pValue.threw THEN pValue
        ELSE Return(pValue.value < SIGNIFICANCE_THRESHOLD)

\* Mutant: a missing p-value is not significant instead of an error.
isFeatureSignificant_lenient(feature) ==
    IF IsNull(feature.logit_p_value) THEN Return(FALSE)
    ELSE Return(feature.logit_p_value[1] <= SIGNIFICANCE_THRESHOLD)

isFeatureSignificant(feature) ==
    LET pValue == getLogitPValue(feature)
    IN  IF pValue.threw THEN pValue
        ELSE Return(pValue.value <= SIGNIFICANCE_THRESHOLD)

\* The row classifier of the oldest version of the file, which reads
\* win_rate_p_value and nothing else.
isSignificantWinRate(feature) ==
    LET pValue == feature.win_rate_p_value
    IN  Return(~IsNull(pValue) /\ pValue[1] <= SIGNIFICANCE_THRESHOLD)

getDeltaWinRate(feature) ==
    IF ~IsNull(feature.delta_win_rate_percentage)
    THEN feature.delta_win_rate_percentage
    ELSE IF ~IsNull(feature.win_rate_percentage)
    THEN feature.win_rate_percentage
    ELSE Null

\* The class names clsx joins for a row of the feature table, in the order
\* of its arguments; a false argument adds nothing.
rowClassNames(feature, selectedFeature, isSignificant) ==
    LET delta == getDeltaWinRate(feature)
        when(cond, name) == IF cond THEN <<name>> ELSE <<>>
    IN  <<"feature-row">>
        \o when(~IsNull(selectedFeature)
                   /\ feature.feature_idx = selectedFeature[1].feature_idx, "selected")
        \o when(isSignificant /\ ~IsNull(delta) /\ delta[1] > 0, "row-positive")
        \o when(isSignificant /\ ~IsNull(delta) /\ delta[1] < 0, "row-negative")
        \o when(~isSignificant \/ IsNull(delta), "row-neutral")

\* className of a feature row in the current and the second version.
featureRowClassName(feature, selectedFeature) ==
    rowClassNames(feature, selectedFeature, isFeatureSignificant(feature).value)

\* className of a feature row in the oldest version.
featureRowClassName_v3(feature, selectedFeature) ==
    rowClassNames(feature, selectedFeature, isSignificantWinRate(feature).value)

\* ---------------------------------------------------------------- objects

\* A JSON object whose key order matters is a sequence of entries
\* [name, value] with distinct names; Object.keys and Object.values follow it.
ObjectKeys(obj) == [i \in 1..Len(obj) |-> obj[i].name]

HasKey(obj, name) == \E i \in 1..Len(obj) : obj[i].name = name

Get(obj, name) == obj[CHOOSE i \in 1..Len(obj) : obj[i].name = name].value

\* --------------------------------------------------------- ranking engine

\* Mutant: a missing fidelity score passes the gate.
passesFidelity_missingPasses(feature) ==
    LET fidelityScore == feature.fidelity_correlation
    IN  IsNull(fidelityScore) \/ fidelityScore[1] >= MIN_FIDELITY

\* Mutant: a score of exactly MIN_FIDELITY is dropped as well.
passesFidelity_above(feature) ==
    LET fidelityScore == feature.fidelity_correlation
    IN  ~IsNull(fidelityScore) /\ fidelityScore[1] > MIN_FIDELITY

\* The predicate of fidelityFiltered.
passesFidelity(feature) ==
    LET fidelityScore == feature.fidelity_correlation
    IN  ~IsNull(fidelityScore) /\ fidelityScore[1] >= MIN_FIDELITY

\* Mutant: a missing delta counts as 0.
deltaOrNegInfinity_zero(feature) ==
    LET delta == getDeltaWinRate(feature)
    IN  IF IsNull(delta) THEN Fin(0) ELSE Fin(delta[1])

\* getDeltaWinRate(x) ?? -Infinity
deltaOrNegInfinity(feature) ==
    LET delta == getDeltaWinRate(feature)
    IN  IF IsNull(delta) THEN NegInfinity ELSE Fin(delta[1])

\* Mutant: the direction is ignored, the order is always descending.
compareByDelta_descOnly(a, b, direction) ==
    ExtNeg(ExtSub(deltaOrNegInfinity(a), deltaOrNegInfinity(b)))

compareByDelta(a, b, direction) ==
    LET deltaA == deltaOrNegInfinity(a)
        deltaB == deltaOrNegInfinity(b)
        diff == ExtSub(deltaA, deltaB)
    IN  IF direction = SORT_DESC THEN ExtNeg(diff) ELSE diff

\* Mutant: the gated features are sorted by delta without the partition.
\* Mutant: the features that are not significant are left out.
rankFeatures_significantOnly(entries, direction) ==
    LET fidelityFiltered == SelectSeq(entries, passesFidelity)
        byDelta == [p \in Pairs(fidelityFiltered) |->
                       CompareSign(compareByDelta(p[1], p[2], direction))]
        isSig(feature) == isFeatureSignificant(feature).value
    IN  ArraySort(SelectSeq(fidelityFiltered, isSig), byDelta)

rankFeatures_unpartitioned(entries, direction) ==
    LET fidelityFiltered == SelectSeq(entries, passesFidelity)
        byDelta == [p \in Pairs(fidelityFiltered) |->
                       CompareSign(compareByDelta(p[1], p[2], direction))]
    IN  ArraySort(fidelityFiltered, byDelta)

\* The body of the features memo for the entries of the selected dataset.
\* The entries have passed validateLogitPValues, so isFeatureSignificant
\* returns on each of them.
rankFeatures(entries, direction) ==
    LET isSig(feature) == isFeatureSignificant(feature).value
        isNotSig(feature) == ~isFeatureSignificant(feature).value
    IN  Only({LET byDelta == [p \in Pairs(fidelityFiltered) |->
                               CompareSign(compareByDelta(p[1], p[2], direction))]
                  significant == ArraySort(SelectSeq(fidelityFiltered, isSig), byDelta)
                  notSignificant == ArraySort(SelectSeq(fidelityFiltered, isNotSig), byDelta)
              IN  significant \o notSignificant :
              fidelityFiltered \in {SelectSeq(entries, passesFidelity)}})

\* const features = useMemo(...)
featuresOf(d, dataset, direction) ==
    IF IsNull(dataset) \/ ~HasKey(d, dataset[1]) THEN <<>>
    ELSE rankFeatures(Get(d, dataset[1]), direction)

\* const selectedFeature = useMemo(...): Null or Some(feature)
selectedFeatureOf(feats, featureId) ==
    Only({IF Len(fs) = 0 THEN Null
          ELSE LET found == {i \in 1..Len(fs) :
                                ~IsNull(featureId) /\ fs[i].feature_idx = featureId}
               IN  IF found = {} THEN Some(fs[1])
                   ELSE Some(fs[CHOOSE i \in found : \A j \in found : i <= j]) :
          fs \in {feats}})

\* ------------------------------------------------------- example selector

getExampleActivationScore(example) == example.activation_z_score

\* Mutant: only the top_5_percent tier is read.
getFeatureExamples_top5Only(feature) ==
    IF IsNull(feature) \/ IsNull(feature[1].examples) THEN <<>>
    ELSE IF IsNull(feature[1].examples[1].top_5_percent) THEN <<>>
    ELSE feature[1].examples[1].top_5_percent[1]

\* feature is Null or Some(record); a tier is Null (no array) or Some(sequence).
getFeatureExamples(feature) ==
    Only({IF IsNull(f) \/ IsNull(f[1].examples) THEN <<>>
          ELSE LET bundle == f[1].examples[1]
                   usable == {k \in 1..Len(EXAMPLE_FIELDS) :
                                 /\ ~IsNull(bundle[EXAMPLE_FIELDS[k]])
                                 /\ Len(bundle[EXAMPLE_FIELDS[k]][1]) > 0}
               IN  IF usable = {} THEN <<>>
                   ELSE bundle[EXAMPLE_FIELDS[CHOOSE k \in usable :
                                                 \A j \in usable : k <= j]][1] :
          f \in {feature}})

\* Mutant: the signed score is compared, not its absolute value.
activationMetric_signed(example) ==
    LET score == getExampleActivationScore(example)
    IN  IF IsNull(score) THEN NegInfinity ELSE Fin(score[1])

\* aScore === null ? -Infinity : Math.abs(aScore)
activationMetric(example) ==
    LET score == getExampleActivationScore(example)
    IN  IF IsNull(score) THEN NegInfinity ELSE Fin(Abs(score[1]))

compareByActivation(a, b) == ExtSub(activationMetric(b), activationMetric(a))

\* const sortedExamples = useMemo(...)
sortedExamplesOf(feature) ==
    Only({IF Len(exampleList) = 0 THEN <<>>
          ELSE ArraySort(exampleList,
                         [p \in Pairs(exampleList) |->
                             CompareSign(compareByActivation(p[1], p[2]))]) :
          exampleList \in {getFeatureExamples(feature)}})

\* ---------------------------------------------------------- example cards

\* A text of a card: what it says (kind) and, where it names responses, the
\* one with more of the feature, the one with less and the feature phrase.
Text(kind, more, less, phrase) == [kind |-> kind, more |-> more, less |-> less, phrase |-> phrase]

\* A heading of a response box: its label and its suffix, if any.
Heading(label, suffix) == [label |-> label, suffix |-> suffix]

winnerIsA(example) == example.label = 1

\* Mutant: the judge's choice decides which response is on the left.
leftResponseIsA_byLabel(example) == example.label = 1

\* activationScore === null ? true : activationScore >= 0
leftResponseIsA(example) ==
    LET activationScore == getExampleActivationScore(example)
    IN  IF IsNull(activationScore) THEN TRUE ELSE activationScore[1] >= 0

hasActivationData(example) == ~IsNull(getExampleActivationScore(example))

hasMeaningfulDifference(example) ==
    hasActivationData(example) /\ getExampleActivationScore(example)[1] # 0

\* Mutant: a text also for a score that is not zero.
comparisonText_alwaysText(example) ==
    IF ~hasActivationData(example) THEN Some(Text("unavailable", "", "", ""))
    ELSE IF ~hasMeaningfulDifference(example) THEN Some(Text("equally", "", "", ""))
    ELSE Some(Text("more", "A", "B", ""))

\* comparisonText of the card of the current version: Null is the null that
\* the card does not render.
comparisonText(example) ==
    IF ~hasActivationData(example) THEN Some(Text("unavailable", "", "", ""))
    ELSE IF ~hasMeaningfulDifference(example) THEN Some(Text("equally", "", "", ""))
    ELSE Null

\* The card of the current version (activation-oriented).  Its headings call
\* the left response "Response A" and the right one "Response B".
ExampleCard(props) ==
    LET example == props.example
        suffix(str) == IF hasMeaningfulDifference(example) THEN Some(str) ELSE Null
    IN  [leftResponse |-> IF leftResponseIsA(example) THEN example.response_A
                          ELSE example.response_B,
         rightResponse |-> IF leftResponseIsA(example) THEN example.response_B
                           ELSE example.response_A,
         comparisonText |-> comparisonText(example),
         leftHeading |-> Heading("Response A", suffix("more of the feature")),
         rightHeading |-> Heading("Response B", suffix("less of the feature")),
         preferredSideIsLeft |-> (winnerIsA(example) = leftResponseIsA(example)),
         number |-> props.exampleIndex + 1]

\* comparisonText of the card of the second version.
comparisonText_v2(example, interpretation) ==
    LET leftResponseId == IF leftResponseIsA(example) THEN "A" ELSE "B"
        rightResponseId == IF leftResponseIsA(example) THEN "B" ELSE "A"
        featurePhrase == IF IsNull(interpretation) THEN "this feature" ELSE interpretation[1]
    IN  IF ~hasActivationData(example) THEN Some(Text("unavailable", "", "", ""))
        ELSE IF ~hasMeaningfulDifference(example) THEN Some(Text("equally", "", "", ""))
        ELSE Some(Text("more", leftResponseId, rightResponseId, featurePhrase))

\* The card of the second version (activation-oriented).
ExampleCard_v2(props) ==
    LET example == props.example
        leftResponseId == IF leftResponseIsA(example) THEN "A" ELSE "B"
        rightResponseId == IF leftResponseIsA(example) THEN "B" ELSE "A"
        suffix(str) == IF hasMeaningfulDifference(example) THEN Some(str) ELSE Null
    IN  [leftResponse |-> IF leftResponseIsA(example) THEN example.response_A
                          ELSE example.response_B,
         rightResponse |-> IF leftResponseIsA(example) THEN example.response_B
                           ELSE example.response_A,
         comparisonText |-> comparisonText_v2(example, props.interpretation),
         leftHeading |-> Heading(IF leftResponseId = "A" THEN "Response A" ELSE "Response B",
                                 suffix("more of the feature")),
         rightHeading |-> Heading(IF rightResponseId = "A" THEN "Response A" ELSE "Response B",
                                  suffix("less of the feature")),
         preferredSideIsLeft |-> (winnerIsA(example) = leftResponseIsA(example)),
         number |-> props.exampleIndex + 1]

\* Mutant: the raw score, whatever the judge chose.
signedZScore_raw(example) == example.activation_z_score

\* rawZScore * (winnerIsA ? 1 : -1), or null
signedZScore(example) ==
    LET rawZScore == example.activation_z_score
    IN  IF ~IsNull(rawZScore)
        THEN Some(rawZScore[1] * (IF winnerIsA(example) THEN 1 ELSE -1))
        ELSE Null

\* comparisonText of the card of the oldest version.
comparisonText_v3(example) ==
    LET signed == signedZScore(example)
    IN  IF IsNull(signed) THEN Some(Text("unavailable", "", "", ""))
        ELSE IF signed[1] > 0 THEN Some(Text("more", "chosen", "rejected", ""))
        ELSE IF signed[1] < 0 THEN Some(Text("more", "rejected", "chosen", ""))
        ELSE Some(Text("equally", "", "", ""))

\* The card of the oldest version (preference-oriented): the chosen
\* response on the left, the rejected one on the right.
ExampleCard_v3(props) ==
    LET example == props.example
    IN  [leftResponse |-> IF winnerIsA(example) THEN example.response_A
                          ELSE example.response_B,
         rightResponse |-> IF winnerIsA(example) THEN example.response_B
                           ELSE example.response_A,
         comparisonText |-> comparisonText_v3(example),
         leftHeading |-> Heading("Chosen response", Null),
         rightHeading |-> Heading("Rejected response", Null),
         signedZScore |-> signedZScore(example)]

\* ------------------------------------------------------------------ load

\* Mutant: the fidelity correlation is required as well.
validateLogitPValues_alsoFidelity(datasetMap) ==
    LET all == UNION {{<<i, j>> : j \in 1..Len(datasetMap[i].value)} :
                         i \in 1..Len(datasetMap)}
        bad == {p \in all : \/ IsNull(datasetMap[p[1]].value[p[2]].logit_p_value)
                            \/ IsNull(datasetMap[p[1]].value[p[2]].fidelity_correlation)}
        first == CHOOSE p \in bad :
                     \A q \in bad : p[1] < q[1] \/ (p[1] = q[1] /\ p[2] <= q[2])
    IN  IF bad = {} THEN Return(Null)
        ELSE Throw([kind |-> "missing_logit_p_value",
                    arg |-> datasetMap[first[1]].value[first[2]].feature_idx])

\* Mutant: only the first dataset of the document is validated.
validateLogitPValues_firstDatasetOnly(datasetMap) ==
    LET bad == {j \in 1..(IF Len(datasetMap) = 0 THEN 0 ELSE Len(datasetMap[1].value)) :
                   getLogitPValue(datasetMap[1].value[j]).threw}
    IN  IF bad = {} THEN Return(Null)
        ELSE getLogitPValue(datasetMap[1].value[CHOOSE j \in bad : \A q \in bad : j <= q])

\* validateLogitPValues: the first getLogitPValue that throws, in the order
\* of Object.entries of the document and Object.values of each dataset.
validateLogitPValues(datasetMap) ==
    LET all == UNION {{<<i, j>> : j \in 1..Len(datasetMap[i].value)} :
                         i \in 1..Len(datasetMap)}
        bad == {p \in all : getLogitPValue(datasetMap[p[1]].value[p[2]]).threw}
        first == CHOOSE p \in bad :
                     \A q \in bad : p[1] < q[1] \/ (p[1] = q[1] /\ p[2] <= q[2])
    IN  IF bad = {} THEN Return(Null)
        ELSE getLogitPValue(datasetMap[first[1]].value[first[2]])

DATASET_DISPLAY_NAMES ==
    [name \in {"HH-RLHF", "Reddit", "PRISM", "CommunityAlign", "ChatbotArena", "PKU", "Tulu"} |->
        CASE name = "HH-RLHF" -> "HH-RLHF"
          [] name = "Reddit" -> "Reddit"
          [] name = "PRISM" -> "PRISM"
          [] name = "CommunityAlign" -> "Community Alignment"
          [] name = "ChatbotArena" -> "LMArena"
          [] name = "PKU" -> "PKU-SafeRLHF"
          [] name = "Tulu" -> "Tulu 3"]

\* DATASET_DISPLAY_NAMES[a] || a
displayName(name) ==
    IF name \in DOMAIN DATASET_DISPLAY_NAMES THEN DATASET_DISPLAY_NAMES[name] ELSE name

\* String.prototype.toLowerCase on the display names and keys of the model.
toLowerCase(str) ==
    CASE str = "HH-RLHF" -> "hh-rlhf"
      [] str = "Reddit" -> "reddit"
      [] str = "PRISM" -> "prism"
      [] str = "Community Alignment" -> "community alignment"
      [] str = "LMArena" -> "lmarena"
      [] str = "PKU-SafeRLHF" -> "pku-saferlhf"
      [] str = "Tulu 3" -> "tulu 3"
      [] str = "Extra" -> "extra"
      [] OTHER -> str

\* String.prototype.localeCompare on those lower-case strings: the
\* difference of their positions in alphabetical order.
localeCompare(strA, strB) ==
    LET alphabetical == <<"community alignment", "extra", "hh-rlhf", "lmarena",
                          "pku-saferlhf", "prism", "reddit", "tulu 3">>
        pos(str) == CHOOSE i \in 1..Len(alphabetical) : alphabetical[i] = str
    IN  Fin(pos(strA) - pos(strB))

\* The comparator of datasetNames in loadData.
compareByDisplayName(a, b) ==
    LET nameA == toLowerCase(displayName(a))
        nameB == toLowerCase(displayName(b))
    IN  localeCompare(nameA, nameB)

\* The fixed order of the datasets in the two older versions.
DATASET_ORDER == <<"HH-RLHF", "Reddit", "PRISM", "CommunityAlign", "ChatbotArena", "PKU", "Tulu">>

\* Mutant: the datasetNames of the older versions, the keys of DATASET_ORDER
\* that the document has, in that order.
datasetNamesOf_byOrder(json) ==
    LET has(name) == HasKey(json, name)
    IN  SelectSeq(DATASET_ORDER, has)

\* Object.keys(json).filter(hasOwnProperty).sort(by display name)
datasetNamesOf(json) ==
    ArraySort(ObjectKeys(json),
              [p \in Pairs(ObjectKeys(json)) |->
                  CompareSign(compareByDisplayName(p[1], p[2]))])

\* ------------------------------------------------- documents of the model

\* Most features of a dataset of a fetched document.
MaxAppFeatures == 2

MkFeature(idx, logit, winP, delta, winRate, fidelity, examples) ==
    [feature_idx |-> idx, logit_p_value |-> logit, win_rate_p_value |-> winP,
     delta_win_rate_percentage |-> delta, win_rate_percentage |-> winRate,
     fidelity_correlation |-> fidelity, examples |-> examples]

MkExample(prompt, label, score) ==
    [prompt |-> prompt, response_A |-> "a", response_B |-> "b", label |-> label,
     activation_z_score |-> score]

MkBundle(top5, top2, top) ==
    [top_5_percent |-> top5, top_2_percent |-> top2, top_examples |-> top]

\* The feature records the fetched documents are made of; the record at
\* position i of a dataset gets feature_idx i.
AppFeatureBodies ==
    { MkFeature(Null, Some(10), Null, Some(5), Null, Some(50),
                Some(MkBundle(Some(<<MkExample(1, 1, Some(2)), MkExample(2, 0, Some(-5))>>),
                              Null, Null))),
      MkFeature(Null, Some(15626), Some(10), Null, Null, Null, Null),
      MkFeature(Null, Null, Some(10), Some(2), Null, Some(50), Null),
      MkFeature(Null, Some(15625), Null, Null, Null, Some(30),
                Some(MkBundle(Some(<<>>), Null, Some(<<MkExample(3, 1, Null)>>)))) }

WithIdx(bodies) ==
    [i \in 1..Len(bodies) |-> [bodies[i] EXCEPT !.feature_idx = Some(i)]]

SeqsUpTo(S, n) == UNION {[1..k -> S] : k \in 0..n}

AppFeatureLists == {WithIdx(bodies) : bodies \in SeqsUpTo(AppFeatureBodies, MaxAppFeatures)}

\* The dataset keys of the fetched documents, in the document's key order.
DocKeys == <<"ChatbotArena", "Extra">>

\* A document: for each key, absent or a feature list.
Docs ==
    LET choices == [1..Len(DocKeys) -> {Null} \cup {Some(fl) : fl \in AppFeatureLists}]
        entries(c) == [i \in 1..Len(DocKeys) |-> [name |-> DocKeys[i], value |-> c[i]]]
        present(e) == ~IsNull(e.value)
        strip(e) == [name |-> e.name, value |-> e.value[1]]
        doc(c) == LET kept == SelectSeq(entries(c), present)
                  IN  [i \in 1..Len(kept) |-> strip(kept[i])]
    IN  {doc(c) : c \in choices}

\* What the fetch can settle with.
Responses ==
    {[kind |-> "network_error", status |-> 0, body |-> Null]}
    \cup {[kind |-> "http", status |-> st, body |-> Null] : st \in {404, 500}}
    \cup {[kind |-> "not_json", status |-> 200, body |-> Null]}
    \cup {[kind |-> "ok", status |-> 200, body |-> Throw([kind |-> "syntax_error", arg |-> Null])]}
    \cup {[kind |-> "ok", status |-> 200, body |-> Return(d)] : d \in Docs}

\* -------------------------------------------------------------- the App

ErrorMsg(kind, arg) == [kind |-> kind, arg |-> arg]

features == featuresOf(data, selectedDataset, sortDirection)

selectedFeature == selectedFeatureOf(features, selectedFeatureId)

sortedExamples == sortedExamplesOf(selectedFeature)

\* The field of the bundle that getFeatureExamples reads: the first of
\* EXAMPLE_FIELDS with a non-empty list.
usedExampleField(bundle) ==
    EXAMPLE_FIELDS[CHOOSE k \in 1..Len(EXAMPLE_FIELDS) :
                      /\ ~IsNull(bundle[EXAMPLE_FIELDS[k]])
                      /\ Len(bundle[EXAMPLE_FIELDS[k]][1]) > 0
                      /\ \A j \in 1..(k - 1) :
                             \/ IsNull(bundle[EXAMPLE_FIELDS[j]])
                             \/ Len(bundle[EXAMPLE_FIELDS[j]][1]) = 0]

\* Mutant: the list of the document is sorted itself, not a copy of it.
exampleListAfterSort_inPlace(exampleList) ==
    ArraySort(exampleList,
              [p \in Pairs(exampleList) |-> CompareSign(compareByActivation(p[1], p[2]))])

\* The list of the document after sortedExamples has run on it:
\* items = [...exampleList] is sorted, exampleList is not.
exampleListAfterSort(exampleList) == exampleList

\* The document after a render in the given view state.  The features memo
\* works on the arrays that Object.values and filter return; sortedExamples
\* reads the example list of the selected feature.
dataAfterRender(d, dataset, direction, featureId) ==
    LET entries == IF IsNull(dataset) \/ ~HasKey(d, dataset[1]) THEN <<>>
                   ELSE Get(d, dataset[1])
        \* the features memo throws and the render ends before sortedExamples
        featuresThrows == \E j \in 1..Len(entries) :
                              /\ passesFidelity(entries[j])
                              /\ isFeatureSignificant(entries[j]).threw
        \* the feature with its example list as sortedExamples leaves it
        after(f) == [f EXCEPT !.examples =
                        Some([f.examples[1] EXCEPT ![usedExampleField(f.examples[1])] =
                                 Some(exampleListAfterSort(getFeatureExamples(Some(f))))])]
        entriesAfter(list, selected) ==
            [j \in 1..Len(list) |-> IF list[j] = selected THEN after(list[j]) ELSE list[j]]
    IN  Only({IF Len(getFeatureExamples(feature)) = 0 THEN d
              ELSE [i \in 1..Len(d) |->
                       IF d[i].name = dataset[1]
                       THEN [name |-> d[i].name,
                             value |-> entriesAfter(d[i].value, feature[1])]
                       ELSE d[i]] :
              feature \in {IF featuresThrows THEN Null
                           ELSE selectedFeatureOf(featuresOf(d, dataset, direction),
                                                  featureId)}})

NotRun == [threw |-> FALSE, value |-> "not run"]

Init ==
    /\ pc = "mount"
    /\ response = Null
    /\ data = <<>>
    /\ datasets = <<>>
    /\ selectedDataset = Null
    /\ selectedFeatureId = Null
    /\ sortDirection = SORT_DESC
    /\ isLoading = TRUE
    /\ error = Null
    /\ effectPending = TRUE
    /\ fnName = "none"
    /\ fnIn = Null
    /\ fnOut = NotRun

\* The mount effect: loadData up to its first await.
LoadStart ==
    /\ pc = "mount"
    /\ pc' = "fetching"
    /\ isLoading' = TRUE
    /\ UNCHANGED <<response, data, datasets, selectedDataset, selectedFeatureId,
                   sortDirection, error, effectPending, fnVars>>

\* Mutant: the catch block without the finally block.
LoadFails_noFinally(msg) ==
    /\ error' = Some(msg)
    /\ pc' = "done"
    /\ UNCHANGED <<response, data, datasets, selectedDataset, selectedFeatureId,
                   sortDirection, isLoading, effectPending, fnVars>>

\* The catch and finally blocks of loadData.
LoadFails(msg) ==
    /\ error' = Some(msg)
    /\ isLoading' = FALSE
    /\ pc' = "done"
    /\ UNCHANGED <<response, data, datasets, selectedDataset, selectedFeatureId,
                   sortDirection, effectPending, fnVars>>

\* fetch settles: loadData from the first await to the second.
FetchSettles(resp) ==
    /\ pc = "fetching"
    /\ ~effectPending
    /\ IF resp.kind = "network_error" THEN LoadFails(ErrorMsg("failed_to_fetch", Null))
       ELSE IF resp.kind = "http" THEN LoadFails(ErrorMsg("http", Some(resp.status)))
       ELSE IF resp.kind = "not_json" THEN LoadFails(ErrorMsg("missing_or_invalid_json", Null))
       ELSE /\ pc' = "parsing"
            /\ response' = Some(resp)
            /\ UNCHANGED <<data, datasets, selectedDataset, selectedFeatureId,
                           sortDirection, isLoading, error, effectPending, fnVars>>

\* response.json() settles: the rest of loadData.
JsonSettles ==
    /\ pc = "parsing"
    /\ LET body == response[1].body
       IN  IF body.threw THEN LoadFails(body.value)
           ELSE LET json == body.value
                    valid == validateLogitPValues(json)
                    datasetNames == datasetNamesOf(json)
                IN  IF valid.threw THEN LoadFails(valid.value)
                    ELSE /\ datasets' = datasetNames
                         /\ selectedDataset' =
                                IF Len(datasetNames) > 0 THEN Some(datasetNames[1])
                                ELSE selectedDataset
                         /\ data' = dataAfterRender(json, selectedDataset', sortDirection,
                                                    selectedFeatureId)
                         /\ isLoading' = FALSE
                         /\ pc' = "done"
                         /\ effectPending' = TRUE
                         /\ UNCHANGED <<response, selectedFeatureId, sortDirection,
                                        error, fnVars>>

\* The page is rendered: neither the loading nor the error state is shown,
\* and the effects of the last render have run.
Rendered == pc = "done" /\ ~isLoading /\ IsNull(error) /\ ~effectPending

\* Mutant: the selected feature id is kept when the dataset changes.
handleDatasetSelect_keepsFeature(dataset) ==
    /\ Rendered
    /\ IF Some(dataset) = selectedDataset
       THEN UNCHANGED vars
       ELSE /\ selectedDataset' = Some(dataset)
            /\ effectPending' = TRUE
            /\ data' = dataAfterRender(data, selectedDataset', sortDirection,
                                       selectedFeatureId)
            /\ UNCHANGED <<pc, response, datasets, selectedFeatureId, sortDirection,
                           isLoading, error, fnVars>>

\* Mutant: no test for the dataset that is already selected.
handleDatasetSelect_noGuard(dataset) ==
    /\ Rendered
    /\ selectedDataset' = Some(dataset)
    /\ selectedFeatureId' = Null
    /\ effectPending' = TRUE
    /\ data' = dataAfterRender(data, selectedDataset', sortDirection, selectedFeatureId')
    /\ UNCHANGED <<pc, response, datasets, sortDirection, isLoading, error, fnVars>>

handleDatasetSelect(dataset) ==
    /\ Rendered
    /\ IF Some(dataset) = selectedDataset
       THEN UNCHANGED vars
       ELSE /\ selectedDataset' = Some(dataset)
            /\ selectedFeatureId' = Null
            /\ effectPending' = TRUE
            /\ data' = dataAfterRender(data, selectedDataset', sortDirection,
                                       selectedFeatureId')
            /\ UNCHANGED <<pc, response, datasets, sortDirection, isLoading,
                           error, fnVars>>

\* Mutant: the updater always answers ascending.
toggled_oneWay(prev) == SORT_ASC

\* The updater toggleSort passes to setSortDirection.
toggled(prev) == IF prev = SORT_DESC THEN SORT_ASC ELSE SORT_DESC

toggleSort ==
    /\ Rendered
    /\ sortDirection' = toggled(sortDirection)
    /\ effectPending' = TRUE
    /\ data' = dataAfterRender(data, selectedDataset, sortDirection', selectedFeatureId)
    /\ UNCHANGED <<pc, response, datasets, selectedDataset, selectedFeatureId,
                   isLoading, error, fnVars>>

\* onClick of a feature row
selectFeature(feature) ==
    /\ Rendered
    /\ selectedFeatureId' = feature.feature_idx
    /\ effectPending' = (selectedFeatureId' # selectedFeatureId)
    /\ data' = dataAfterRender(data, selectedDataset, sortDirection, selectedFeatureId')
    /\ UNCHANGED <<pc, response, datasets, selectedDataset, sortDirection,
                   isLoading, error, fnVars>>

\* Mutant: the effect leaves the id as it is.
repairedFeatureId_asIs(feats, featureId) == featureId

\* The value the selected-feature effect sets selectedFeatureId to.
repairedFeatureId(feats, featureId) ==
    Only({IF Len(fs) = 0 THEN Null
          ELSE IF IsNull(featureId) \/ ~\E i \in 1..Len(fs) : fs[i].feature_idx = featureId
          THEN fs[1].feature_idx
          ELSE featureId :
          fs \in {feats}})

\* useEffect(..., [features, selectedFeatureId]); a changed id renders again
\* and runs the effect again.
selectedFeatureEffect ==
    /\ pc # "mount"
    /\ effectPending
    /\ selectedFeatureId' = repairedFeatureId(features, selectedFeatureId)
    /\ effectPending' = (selectedFeatureId' # selectedFeatureId)
    /\ data' = dataAfterRender(data, selectedDataset, sortDirection, selectedFeatureId')
    /\ UNCHANGED <<pc, response, datasets, selectedDataset, sortDirection,
                   isLoading, error, fnVars>>

Next ==
    \/ LoadStart
    \/ \E resp \in Responses : FetchSettles(resp)
    \/ JsonSettles
    \/ \E i \in 1..Len(datasets) : handleDatasetSelect(datasets[i])
    \/ toggleSort
    \/ \E i \in 1..Len(features) : selectFeature(features[i])
    \/ selectedFeatureEffect

Spec == Init /\ [][Next]_vars

\* The mount effect runs, the promises of fetch and response.json() settle,
\* and React runs the pending effects of a render.
Fairness ==
    /\ WF_vars(LoadStart)
    /\ WF_vars(pc = "fetching" /\ \E resp \in Responses : FetchSettles(resp))
    /\ WF_vars(JsonSettles)
    /\ WF_vars(selectedFeatureEffect)

SpecFair == Spec /\ Fairness

\* ------------------------------------------- the functions on their own

\* The App before its mount effect, which the function harnesses leave alone.
AppIdle ==
    /\ pc = "mount"
    /\ response = Null
    /\ data = <<>>
    /\ datasets = <<>>
    /\ selectedDataset = Null
    /\ selectedFeatureId = Null
    /\ sortDirection = SORT_DESC
    /\ isLoading = TRUE
    /\ error = Null
    /\ effectPending = TRUE

Call(name, result) ==
    /\ fnName = "none"
    /\ fnName' = name
    /\ fnOut' = result
    /\ UNCHANGED <<fnIn, appVars>>

\* The classifiers on one feature record.
PValues == {Null, Some(0), Some(15624), Some(15625), Some(15626), Some(500000)}

ClassifierInputs ==
    {MkFeature(idx, logit, winP, Null, Null, Null, Null) :
        idx \in {Null, Some(1), Some(2)}, logit \in PValues, winP \in PValues}

ClassifyInit == AppIdle /\ fnName = "none" /\ fnOut = NotRun /\ fnIn \in ClassifierInputs

CallIsFeatureSignificant == Call("isFeatureSignificant", isFeatureSignificant(fnIn))

CallIsSignificantWinRate == Call("isSignificantWinRate", isSignificantWinRate(fnIn))

ClassifyNext == CallIsFeatureSignificant \/ CallIsSignificantWinRate

SpecClassify == ClassifyInit /\ [][ClassifyNext]_vars

\* The ranking of validated feature records, first in one direction and
\* then, after a toggle, in the other.
MaxFeatures == 2

RankFeatureBodies ==
    {MkFeature(Null, Some(p), Null, delta, winRate, fidelity, Null) :
        p \in {15625, 15626},
        delta \in {Null, Some(-5), Some(5)},
        winRate \in {Null, Some(3)},
        fidelity \in {Null, Some(29), Some(30), Some(95)}}

RankInputs ==
    {[entries |-> WithIdx(bodies), direction |-> dir] :
        bodies \in SeqsUpTo(RankFeatureBodies, MaxFeatures), dir \in {SORT_ASC, SORT_DESC}}

RankInit == AppIdle /\ fnName = "none" /\ fnOut = NotRun /\ fnIn \in RankInputs

CallRankFeatures ==
    Call("rankFeatures", Return(<<rankFeatures(fnIn.entries, fnIn.direction)>>))

Opposite(direction) == IF direction = SORT_DESC THEN SORT_ASC ELSE SORT_DESC

RankReversed ==
    /\ fnName = "rankFeatures"
    /\ Len(fnOut.value) = 1
    /\ fnOut' = Return(Append(fnOut.value,
                              rankFeatures(fnIn.entries, Opposite(fnIn.direction))))
    /\ UNCHANGED <<fnName, fnIn, appVars>>

RankNext == CallRankFeatures \/ RankReversed

SpecRank == RankInit /\ [][RankNext]_vars

\* The example selector on one selected feature.
MaxExamples == 4

Scores == {Null, Some(0), Some(2), Some(-5)}

ExampleLists ==
    {[i \in 1..Len(scores) |-> MkExample(i, i % 2, scores[i])] :
        scores \in SeqsUpTo(Scores, MaxExamples)}

FeatureWith(examples) ==
    Some(MkFeature(Some(1), Some(10), Null, Some(5), Null, Some(50), examples))

\* Features whose only tier is top_5_percent, with every list of examples.
OrderingInputs == {FeatureWith(Some(MkBundle(Some(l), Null, Null))) : l \in ExampleLists}

\* Tier t is absent, empty or holds examples that carry the tier in their prompt.
TierChoices(t) ==
    {Null, Some(<<>>), Some(<<MkExample(10 * t + 1, 1, Some(t))>>),
     Some(<<MkExample(10 * t + 1, 1, Null), MkExample(10 * t + 2, 0, Some(-t))>>)}

TierInputs ==
    {Null, FeatureWith(Null)}
    \cup {FeatureWith(Some(MkBundle(t5, t2, t))) :
             t5 \in TierChoices(1), t2 \in TierChoices(2), t \in TierChoices(3)}

ExamplesInit ==
    AppIdle /\ fnName = "none" /\ fnOut = NotRun /\ fnIn \in OrderingInputs \cup TierInputs

CallGetFeatureExamples == Call("getFeatureExamples", Return(getFeatureExamples(fnIn)))

CallSortedExamples == Call("sortedExamples", Return(sortedExamplesOf(fnIn)))

ExamplesNext == CallGetFeatureExamples \/ CallSortedExamples

SpecExamples == ExamplesInit /\ [][ExamplesNext]_vars

\* The example cards of the three versions on one example.
CardScores == {Null, Some(-3), Some(-1), Some(0), Some(2), Some(3)}

CardInputs ==
    {[example |-> MkExample(1, label, score), interpretation |-> interp, exampleIndex |-> idx] :
        label \in {0, 1}, score \in CardScores,
        interp \in {Null, Some("is polite")}, idx \in {0, 1}}

CardInit == AppIdle /\ fnName = "none" /\ fnOut = NotRun /\ fnIn \in CardInputs

CallExampleCard == Call("ExampleCard", Return(ExampleCard(fnIn)))

CallExampleCardV2 == Call("ExampleCard_v2", Return(ExampleCard_v2(fnIn)))

CallExampleCardV3 == Call("ExampleCard_v3", Return(ExampleCard_v3(fnIn)))

CardNext == CallExampleCard \/ CallExampleCardV2 \/ CallExampleCardV3

SpecCard == CardInit /\ [][CardNext]_vars

\* The rows of the feature table on one feature.
RowFeatures ==
    {MkFeature(Some(1), Some(logit), winP, delta, winRate, Some(50), Null) :
        logit \in {15625, 15626},
        winP \in {Null, Some(15625), Some(15626)},
        delta \in {Null, Some(-5), Some(0), Some(5)},
        winRate \in {Null, Some(0), Some(3)}}

RowInputs ==
    {[feature |-> f, selectedFeature |-> sel] :
        f \in RowFeatures, sel \in {Null, Some(MkFeature(Some(1), Some(10), Null, Null, Null, Some(50), Null)),
                                     Some(MkFeature(Some(2), Some(10), Null, Null, Null, Some(50), Null))}}

RowInit == AppIdle /\ fnName = "none" /\ fnOut = NotRun /\ fnIn \in RowInputs

CallFeatureRowClassName ==
    Call("featureRowClassName",
         Return(featureRowClassName(fnIn.feature, fnIn.selectedFeature)))

CallFeatureRowClassNameV3 ==
    Call("featureRowClassName_v3",
         Return(featureRowClassName_v3(fnIn.feature, fnIn.selectedFeature)))

RowNext == CallFeatureRowClassName \/ CallFeatureRowClassNameV3

SpecRow == RowInit /\ [][RowNext]_vars

\* ---------------------------------------------------------------- claims

Reverse(seq) == [i \in 1..Len(seq) |-> seq[Len(seq) + 1 - i]]

\* Position of an element that occurs once in seq.
Pos(seq, x) == CHOOSE i \in 1..Len(seq) : seq[i] = x

\* A validated feature is significant: its p-value is at most 0.0015625.
IsSig(f) == f.logit_p_value[1] <= 15625

IsNotSig(f) == ~IsSig(f)

\* The feature has a fidelity correlation of at least 0.30.
Gated(f) == ~IsNull(f.fidelity_correlation) /\ f.fidelity_correlation[1] >= 30

\* The feature has neither delta_win_rate_percentage nor win_rate_percentage.
NoDelta(f) == IsNull(f.delta_win_rate_percentage) /\ IsNull(f.win_rate_percentage)

\* The delta the ranking compares: Null stands for -Infinity.
EffDelta(f) ==
    IF ~IsNull(f.delta_win_rate_percentage) THEN f.delta_win_rate_percentage
    ELSE f.win_rate_percentage

Ranked == fnName = "rankFeatures"

\* The k-th ranking of the harness and the direction it was made with.
RankOut(k) == fnOut.value[k]

RankDir(k) == IF k = 1 THEN fnIn.direction ELSE Opposite(fnIn.direction)

\* C1: in every ranked output, whatever the sort direction, no feature that
\* is not significant stands before a significant one.
C1_SignificantFirst ==
    Ranked =>
        \A k \in 1..Len(fnOut.value) :
            \A i, j \in 1..Len(RankOut(k)) :
                i < j => ~(IsNotSig(RankOut(k)[i]) /\ IsSig(RankOut(k)[j]))

\* Both directions ranked; a significant feature stands first although the
\* feature after it, not significant, has the larger delta.
C1_Witness ==
    /\ Ranked
    /\ Len(fnOut.value) = 2
    /\ \A k \in 1..2 :
           /\ Len(RankOut(k)) = 2
           /\ IsSig(RankOut(k)[1]) /\ IsNotSig(RankOut(k)[2])
           /\ EffDelta(RankOut(k)[1]) = Some(-5) /\ EffDelta(RankOut(k)[2]) = Some(5)

\* C2: a classifier returns true exactly when the p-value it reads is
\* present and at most 0.0015625 (15625 units); the threshold itself counts.
C2_SignificantIffAtMostThreshold ==
    /\ fnName = "isFeatureSignificant" =>
           ((~fnOut.threw /\ fnOut.value)
               <=> (~IsNull(fnIn.logit_p_value) /\ fnIn.logit_p_value[1] <= 15625))
    /\ fnName = "isSignificantWinRate" =>
           ((~fnOut.threw /\ fnOut.value)
               <=> (~IsNull(fnIn.win_rate_p_value) /\ fnIn.win_rate_p_value[1] <= 15625))

\* isFeatureSignificant has returned true on a p-value equal to the threshold.
C2_Witness ==
    /\ fnName = "isFeatureSignificant"
    /\ fnIn.logit_p_value = Some(15625)
    /\ ~fnOut.threw /\ fnOut.value

\* C3 as claimed: every feature whose fidelity field is missing is in the
\* ranked output.
C3_Original ==
    Ranked =>
        \A k \in 1..Len(fnOut.value) :
            \A f \in Range(fnIn.entries) :
                IsNull(f.fidelity_correlation) => f \in Range(RankOut(k))

\* C3 as amended: the fidelity gate excludes every feature whose fidelity
\* field is missing; none is in the ranked output, in either direction.
C3_MissingFidelityExcluded ==
    Ranked =>
        \A k \in 1..Len(fnOut.value) :
            \A f \in Range(fnIn.entries) :
                IsNull(f.fidelity_correlation) => f \notin Range(RankOut(k))

\* Of two entries, the one without fidelity is dropped and the other ranked.
C3_Witness ==
    /\ Ranked
    /\ Len(fnIn.entries) = 2
    /\ IsNull(fnIn.entries[1].fidelity_correlation)
    /\ fnIn.entries[2].fidelity_correlation = Some(30)
    /\ RankOut(1) = <<fnIn.entries[2]>>

\* C4 as claimed: a gated feature without any delta is in the output and no
\* feature of its partition that has a delta stands after it, in both
\* directions.
C4_Original ==
    Ranked =>
        \A k \in 1..Len(fnOut.value) :
            \A f \in Range(fnIn.entries) :
                (NoDelta(f) /\ Gated(f)) =>
                    /\ f \in Range(RankOut(k))
                    /\ \A g \in Range(RankOut(k)) :
                           (IsSig(g) = IsSig(f) /\ ~NoDelta(g)) =>
                               Pos(RankOut(k), g) < Pos(RankOut(k), f)

\* C4 as amended: such a feature is in the output; descending, every
\* feature of its partition that has a delta stands before it (it is last),
\* and ascending every such feature stands after it (it is first).
C4_NoDeltaLastDescFirstAsc ==
    Ranked =>
        \A k \in 1..Len(fnOut.value) :
            \A f \in Range(fnIn.entries) :
                (NoDelta(f) /\ Gated(f)) =>
                    /\ f \in Range(RankOut(k))
                    /\ \A g \in Range(RankOut(k)) :
                           (IsSig(g) = IsSig(f) /\ ~NoDelta(g)) =>
                               IF RankDir(k) = SORT_DESC
                               THEN Pos(RankOut(k), g) < Pos(RankOut(k), f)
                               ELSE Pos(RankOut(k), f) < Pos(RankOut(k), g)

\* Both directions ranked for two features of one partition, one without a
\* delta: it is last descending and first ascending.
C4_Witness ==
    /\ Ranked
    /\ Len(fnOut.value) = 2
    /\ fnIn.direction = SORT_DESC
    /\ Len(RankOut(1)) = 2
    /\ IsSig(RankOut(1)[1]) = IsSig(RankOut(1)[2])
    /\ ~NoDelta(RankOut(1)[1]) /\ NoDelta(RankOut(1)[2])
    /\ RankOut(2) = <<RankOut(1)[2], RankOut(1)[1]>>

\* C5 as claimed: without logit_p_value the classifier decides by
\* win_rate_p_value against the threshold; with it, by logit_p_value.
C5_Original ==
    fnName = "isFeatureSignificant" =>
        IF IsNull(fnIn.logit_p_value)
        THEN ~IsNull(fnIn.win_rate_p_value) =>
                 (~fnOut.threw /\ fnOut.value = (fnIn.win_rate_p_value[1] <= 15625))
        ELSE ~fnOut.threw /\ fnOut.value = (fnIn.logit_p_value[1] <= 15625)

\* C5 as amended: without logit_p_value the classifier raises the error
\* "missing logit_p_value", whatever win_rate_p_value is (there is no
\* fallback); with logit_p_value it decides by that field alone.
C5_NoFallback ==
    fnName = "isFeatureSignificant" =>
        IF IsNull(fnIn.logit_p_value)
        THEN fnOut.threw /\ fnOut.value.kind = "missing_logit_p_value"
        ELSE ~fnOut.threw /\ fnOut.value = (fnIn.logit_p_value[1] <= 15625)

\* The classifier has thrown on a feature whose win_rate_p_value alone is
\* present and below the threshold.
C5_Witness ==
    /\ fnName = "isFeatureSignificant"
    /\ IsNull(fnIn.logit_p_value)
    /\ fnIn.win_rate_p_value = Some(0)
    /\ fnOut.threw

\* C6 as claimed: with both fields absent the classifier returns false and
\* raises nothing.
C6_Original ==
    (/\ fnName = "isFeatureSignificant"
     /\ IsNull(fnIn.logit_p_value)
     /\ IsNull(fnIn.win_rate_p_value)) => (~fnOut.threw /\ fnOut.value = FALSE)

\* C6 as amended: with both fields absent isFeatureSignificant raises the
\* error "Feature <feature_idx> is missing logit_p_value"; it is the
\* classifier on win_rate_p_value that returns false without an error.
C6_BothAbsentThrows ==
    (IsNull(fnIn.logit_p_value) /\ IsNull(fnIn.win_rate_p_value)) =>
        /\ fnName = "isFeatureSignificant" =>
               /\ fnOut.threw
               /\ fnOut.value = [kind |-> "missing_logit_p_value", arg |-> fnIn.feature_idx]
        /\ fnName = "isSignificantWinRate" => (~fnOut.threw /\ fnOut.value = FALSE)

\* isFeatureSignificant has thrown on feature 2, which has neither field.
C6_Witness ==
    /\ fnName = "isFeatureSignificant"
    /\ IsNull(fnIn.logit_p_value) /\ IsNull(fnIn.win_rate_p_value)
    /\ fnIn.feature_idx = Some(2)
    /\ fnOut.threw /\ fnOut.value.arg = Some(2)

\* The document the fetch settled with, when it settled with one.
GotDocument ==
    /\ ~IsNull(response)
    /\ response[1].kind = "ok"
    /\ ~response[1].body.threw

\* The identifiers of the features of a document without logit_p_value.
MissingIn(doc) ==
    UNION {{doc[i].value[j].feature_idx :
               j \in {n \in 1..Len(doc[i].value) : IsNull(doc[i].value[n].logit_p_value)}} :
           i \in 1..Len(doc)}

\* C7: when a feature of any dataset of the fetched document lacks the
\* significance statistic, the load ends with an error that names such a
\* feature and with data, datasets and selectedDataset at their initial
\* values; and whenever the error is set, those three are at their initial
\* values.
C7_LoadFailsOnMissingPValue ==
    /\ (pc = "done" /\ GotDocument /\ MissingIn(response[1].body.value) # {}) =>
           /\ ~isLoading
           /\ ~IsNull(error)
           /\ error[1].kind = "missing_logit_p_value"
           /\ error[1].arg \in MissingIn(response[1].body.value)
    /\ ~IsNull(error) => (data = <<>> /\ datasets = <<>> /\ IsNull(selectedDataset))

\* The load has failed on a document with two datasets whose first dataset
\* is complete and whose second lacks the statistic on its feature 2.
C7_Witness ==
    /\ pc = "done"
    /\ GotDocument
    /\ Len(response[1].body.value) = 2
    /\ Len(response[1].body.value[1].value) = 2
    /\ MissingIn(<<response[1].body.value[1]>>) = {}
    /\ MissingIn(<<response[1].body.value[2]>>) = {Some(2)}
    /\ error = Some([kind |-> "missing_logit_p_value", arg |-> Some(2)])
    /\ data = <<>>

\* C8 as claimed: the significant part and the not-significant part of the
\* ranking in one direction are the reverses of those parts in the other.
C8_Original ==
    (Ranked /\ Len(fnOut.value) = 2) =>
        /\ SelectSeq(RankOut(2), IsSig) = Reverse(SelectSeq(RankOut(1), IsSig))
        /\ SelectSeq(RankOut(2), IsNotSig) = Reverse(SelectSeq(RankOut(1), IsNotSig))

\* C8 as amended: reversing the direction keeps the features and keeps each
\* position in its partition, and it reverses the relative order of every
\* two features of one partition whose deltas differ (features with equal
\* deltas, or both without one, are not reversed).
C8_ReversesDistinctDeltas ==
    (Ranked /\ Len(fnOut.value) = 2) =>
        /\ Len(RankOut(1)) = Len(RankOut(2))
        /\ Range(RankOut(1)) = Range(RankOut(2))
        /\ \A i \in 1..Len(RankOut(1)) : IsSig(RankOut(1)[i]) = IsSig(RankOut(2)[i])
        /\ \A f, g \in Range(RankOut(1)) :
               (IsSig(f) = IsSig(g) /\ EffDelta(f) # EffDelta(g)) =>
                   (Pos(RankOut(1), f) < Pos(RankOut(1), g)
                       <=> Pos(RankOut(2), g) < Pos(RankOut(2), f))

\* Two significant features with deltas 5 and -5 ranked in both directions:
\* 5 first descending, -5 first ascending.
C8_Witness ==
    /\ Ranked
    /\ Len(fnOut.value) = 2
    /\ fnIn.direction = SORT_DESC
    /\ Len(RankOut(1)) = 2
    /\ IsSig(RankOut(1)[1]) /\ IsSig(RankOut(1)[2])
    /\ EffDelta(RankOut(1)[1]) = Some(5) /\ EffDelta(RankOut(1)[2]) = Some(-5)
    /\ RankOut(2) = Reverse(RankOut(1))

\* The tier a feature's examples come from: the first of top_5_percent,
\* top_2_percent, top_examples that is a non-empty array.
NonEmptyTier(tier) == ~IsNull(tier) /\ Len(tier[1]) > 0

FirstNonEmptyTier(feature) ==
    IF IsNull(feature) THEN <<>>
    ELSE IF IsNull(feature[1].examples) THEN <<>>
    ELSE IF NonEmptyTier(feature[1].examples[1].top_5_percent)
    THEN feature[1].examples[1].top_5_percent[1]
    ELSE IF NonEmptyTier(feature[1].examples[1].top_2_percent)
    THEN feature[1].examples[1].top_2_percent[1]
    ELSE IF NonEmptyTier(feature[1].examples[1].top_examples)
    THEN feature[1].examples[1].top_examples[1]
    ELSE <<>>

ScoresOf(examples) == [i \in 1..Len(examples) |-> examples[i].activation_z_score]

\* C9: the sorted examples are the examples of the selected tier, every
\* example without a score after every example with one, and the scored
\* ones by absolute value, largest first; the scores 2, -5, null, 0 come out
\* as -5, 2, 0, null.
C9_ExamplesByAbsScoreDesc ==
    fnName = "sortedExamples" =>
        /\ Len(fnOut.value) = Len(FirstNonEmptyTier(fnIn))
        /\ Range(fnOut.value) = Range(FirstNonEmptyTier(fnIn))
        /\ \A i, j \in 1..Len(fnOut.value) :
               i < j =>
                   \/ IsNull(fnOut.value[j].activation_z_score)
                   \/ /\ ~IsNull(fnOut.value[i].activation_z_score)
                      /\ Abs(fnOut.value[i].activation_z_score[1])
                             >= Abs(fnOut.value[j].activation_z_score[1])
        /\ ScoresOf(FirstNonEmptyTier(fnIn)) = <<Some(2), Some(-5), Null, Some(0)>> =>
               ScoresOf(fnOut.value) = <<Some(-5), Some(2), Some(0), Null>>

\* The examples with scores 2, -5, null, 0 have been sorted.
C9_Witness ==
    /\ fnName = "sortedExamples"
    /\ ScoresOf(FirstNonEmptyTier(fnIn)) = <<Some(2), Some(-5), Null, Some(0)>>
    /\ ScoresOf(fnOut.value) = <<Some(-5), Some(2), Some(0), Null>>

\* C10: getFeatureExamples returns the examples of exactly one tier, the
\* first non-empty one in the order top_5_percent, top_2_percent,
\* top_examples, and the empty sequence when there is none or the feature
\* has no examples bundle.
C10_FirstNonEmptyTier ==
    fnName = "getFeatureExamples" => fnOut.value = FirstNonEmptyTier(fnIn)

\* top_5_percent is an empty array and the two other tiers hold examples:
\* the result is the top_2_percent tier alone.
C10_Witness ==
    /\ fnName = "getFeatureExamples"
    /\ ~IsNull(fnIn) /\ ~IsNull(fnIn[1].examples)
    /\ fnIn[1].examples[1].top_5_percent = Some(<<>>)
    /\ NonEmptyTier(fnIn[1].examples[1].top_2_percent)
    /\ NonEmptyTier(fnIn[1].examples[1].top_examples)
    /\ fnOut.value = fnIn[1].examples[1].top_2_percent[1]

\* C11: on the preference-oriented card the left response is the one the
\* judge chose (response_A exactly when label is 1), the right response is
\* the other one, and the signed score is the raw score when label is 1,
\* its negation otherwise, and absent when the raw score is absent.
C11_ChosenLeftSignedScore ==
    fnName = "ExampleCard_v3" =>
        /\ fnOut.value.leftResponse =
               (IF fnIn.example.label = 1 THEN fnIn.example.response_A
                ELSE fnIn.example.response_B)
        /\ fnOut.value.rightResponse =
               (IF fnIn.example.label = 1 THEN fnIn.example.response_B
                ELSE fnIn.example.response_A)
        /\ fnOut.value.signedZScore =
               (IF IsNull(fnIn.example.activation_z_score) THEN Null
                ELSE IF fnIn.example.label = 1 THEN fnIn.example.activation_z_score
                ELSE Some(0 - fnIn.example.activation_z_score[1]))

\* label 0 and raw score 3: response B on the left, signed score -3.
C11_Witness ==
    /\ fnName = "ExampleCard_v3"
    /\ fnIn.example.label = 0
    /\ fnIn.example.activation_z_score = Some(3)
    /\ fnOut.value.leftResponse = "b"
    /\ fnOut.value.rightResponse = "a"
    /\ fnOut.value.signedZScore = Some(-3)

IsCard == fnName \in {"ExampleCard", "ExampleCard_v2", "ExampleCard_v3"}

\* C12 as claimed: on every card the comparison text says "unavailable"
\* without a score, "equally" for the score 0, and for any other score it
\* is a text that names the side with more of the feature.
C12_Original ==
    IsCard =>
        /\ ~IsNull(fnOut.value.comparisonText)
        /\ fnOut.value.comparisonText[1].kind =
               (IF IsNull(fnIn.example.activation_z_score) THEN "unavailable"
                ELSE IF fnIn.example.activation_z_score[1] = 0 THEN "equally"
                ELSE "more")

\* C12 as amended: the comparison text has three states decided by the
\* score; without a score it says "unavailable" and for the score 0
\* "equally"; for any other score the cards of the two older versions give
\* a text that names the side with more of the feature, while the card of
\* the current version gives no comparison text (null) and marks the left
\* heading "more of the feature" and the right one "less of the feature".
C12_ThreeStatesTextOrHeadings ==
    IsCard =>
        IF IsNull(fnIn.example.activation_z_score)
        THEN /\ ~IsNull(fnOut.value.comparisonText)
             /\ fnOut.value.comparisonText[1].kind = "unavailable"
        ELSE IF fnIn.example.activation_z_score[1] = 0
        THEN /\ ~IsNull(fnOut.value.comparisonText)
             /\ fnOut.value.comparisonText[1].kind = "equally"
        ELSE IF fnName = "ExampleCard"
        THEN /\ IsNull(fnOut.value.comparisonText)
             /\ fnOut.value.leftHeading.suffix = Some("more of the feature")
             /\ fnOut.value.rightHeading.suffix = Some("less of the feature")
        ELSE /\ ~IsNull(fnOut.value.comparisonText)
             /\ fnOut.value.comparisonText[1].kind = "more"
             /\ fnOut.value.comparisonText[1].more # fnOut.value.comparisonText[1].less

\* The card of the current version on the score 2: no comparison text, the
\* headings carry the comparison.
C12_Witness ==
    /\ fnName = "ExampleCard"
    /\ fnIn.example.activation_z_score = Some(2)
    /\ IsNull(fnOut.value.comparisonText)
    /\ fnOut.value.leftHeading.suffix = Some("more of the feature")

\* C13: on the activation-oriented cards the left response is response A
\* when there is no score or the score is at least 0, and response B when
\* the score is negative, whatever the label; the right response is the
\* other one.
C13_LeftByActivationOnly ==
    fnName \in {"ExampleCard", "ExampleCard_v2"} =>
        /\ fnOut.value.leftResponse =
               (IF IsNull(fnIn.example.activation_z_score) THEN fnIn.example.response_A
                ELSE IF fnIn.example.activation_z_score[1] >= 0 THEN fnIn.example.response_A
                ELSE fnIn.example.response_B)
        /\ fnOut.value.rightResponse # fnOut.value.leftResponse
        /\ fnOut.value.rightResponse \in {fnIn.example.response_A, fnIn.example.response_B}

\* No score and the judge chose B: response A is on the left all the same.
C13_Witness ==
    /\ fnName = "ExampleCard"
    /\ IsNull(fnIn.example.activation_z_score)
    /\ fnIn.example.label = 0
    /\ fnOut.value.leftResponse = "a"
    /\ ~fnOut.value.preferredSideIsLeft

Loaded == pc = "done" /\ IsNull(error)

\* C14 as claimed: every tab is a key of the fixed ordering list, the tabs
\* stand in the order of that list, and the selected dataset is a key of
\* the list.
C14_Original ==
    Loaded =>
        /\ \A i \in 1..Len(datasets) : datasets[i] \in Range(DATASET_ORDER)
        /\ \A i, j \in 1..Len(datasets) :
               i < j => Pos(DATASET_ORDER, datasets[i]) < Pos(DATASET_ORDER, datasets[j])
        /\ ~IsNull(selectedDataset) => selectedDataset[1] \in Range(DATASET_ORDER)

\* C14 as amended: every dataset key of the loaded document is a tab, the
\* tabs stand in alphabetical order of their lower-cased display names
\* ("extra" before "lmarena"), and the selected dataset is one of the tabs,
\* or null when there is none; a key outside the known names is a tab like
\* any other.
C14_AllKeysByDisplayName ==
    Loaded =>
        /\ Range(datasets) = {data[i].name : i \in 1..Len(data)}
        /\ Len(datasets) = Len(data)
        /\ datasets \in {<<>>, <<"ChatbotArena">>, <<"Extra">>, <<"Extra", "ChatbotArena">>}
        /\ IF datasets = <<>> THEN IsNull(selectedDataset)
           ELSE ~IsNull(selectedDataset) /\ selectedDataset[1] \in Range(datasets)

\* The document has the keys ChatbotArena and Extra in that order; the tabs
\* are Extra, then ChatbotArena, and Extra is the selected dataset.
C14_Witness ==
    /\ Rendered
    /\ Len(data) = 2
    /\ data[1].name = "ChatbotArena"
    /\ datasets = <<"Extra", "ChatbotArena">>
    /\ selectedDataset = Some("Extra")

\* C15: of the features that have a fidelity correlation, the ranked output
\* holds exactly those whose correlation is at least 0.30: 0.29 is left
\* out, 0.30 is kept.
C15_GateAtThreshold ==
    Ranked =>
        \A k \in 1..Len(fnOut.value) :
            \A i \in 1..Len(fnIn.entries) :
                ~IsNull(fnIn.entries[i].fidelity_correlation) =>
                    (fnIn.entries[i] \in Range(RankOut(k))
                        <=> fnIn.entries[i].fidelity_correlation[1] >= 30)

\* A feature with 0.29 and one with 0.30: the ranking is the second alone.
C15_Witness ==
    /\ Ranked
    /\ Len(fnIn.entries) = 2
    /\ fnIn.entries[1].fidelity_correlation = Some(29)
    /\ fnIn.entries[2].fidelity_correlation = Some(30)
    /\ RankOut(1) = <<fnIn.entries[2]>>

\* The feature has the significance statistic and none of fidelity, delta
\* win rate, win rate and examples.
Bare(f) ==
    /\ ~IsNull(f.logit_p_value)
    /\ IsNull(f.fidelity_correlation)
    /\ NoDelta(f)
    /\ IsNull(f.examples)

\* C16: when every feature of the fetched document has the significance
\* statistic, the load ends without an error and with the document as the
\* data, whatever else the features lack; the significance test then
\* returns on every feature, the ranked list is made of features of the
\* selected dataset and the example list of examples of the selected
\* feature.
C16_LoadNeedsOnlyPValue ==
    (pc = "done" /\ GotDocument /\ MissingIn(response[1].body.value) = {}) =>
        /\ IsNull(error)
        /\ ~isLoading
        /\ data = response[1].body.value
        /\ \A i \in 1..Len(data) :
               \A j \in 1..Len(data[i].value) :
                   ~isFeatureSignificant(data[i].value[j]).threw
        /\ ~IsNull(selectedDataset) =>
               Range(features) \subseteq Range(Get(data, selectedDataset[1]))
        /\ Range(sortedExamples) = Range(getFeatureExamples(selectedFeature))

\* A document is loaded that has a feature with nothing but the statistic,
\* and the selected feature shows an example without an activation score.
C16_Witness ==
    /\ Rendered
    /\ \E i \in 1..Len(data) : \E j \in 1..Len(data[i].value) : Bare(data[i].value[j])
    /\ \E j \in 1..Len(Get(data, selectedDataset[1])) :
           Bare(Get(data, selectedDataset[1])[j])
    /\ Len(sortedExamples) = 1
    /\ IsNull(sortedExamples[1].activation_z_score)

\* C17: the ranked output holds exactly the entries whose fidelity
\* correlation is at least 0.30, each of them once, however many there are.
C17_PermutationOfGated ==
    Ranked =>
        \A k \in 1..Len(fnOut.value) :
            /\ Range(RankOut(k)) = {f \in Range(fnIn.entries) : Gated(f)}
            /\ Len(RankOut(k)) = Cardinality({f \in Range(fnIn.entries) : Gated(f)})

\* Two entries pass the gate, one significant and one not; both rankings
\* hold the two of them.
C17_Witness ==
    /\ Ranked
    /\ Len(fnOut.value) = 2
    /\ Len(fnIn.entries) = 2
    /\ Gated(fnIn.entries[1]) /\ Gated(fnIn.entries[2])
    /\ IsNotSig(fnIn.entries[1]) /\ IsSig(fnIn.entries[2])
    /\ Len(RankOut(1)) = 2
    /\ Len(RankOut(2)) = 2

\* C18: from the successful load on, the data is the fetched document, with
\* every feature and every example list as fetched, whatever datasets and
\* features have been selected and however often the sort was toggled.
C18_DataIsFetchedDocument ==
    (pc = "done" /\ GotDocument /\ IsNull(error)) => data = response[1].body.value

\* The sort has been toggled and feature 2 selected; its example list is
\* shown in another order than the document has it, and the document is as
\* fetched.
C18_Witness ==
    /\ Rendered
    /\ sortDirection = SORT_ASC
    /\ selectedFeatureId = Some(2)
    /\ Len(sortedExamples) = 2
    /\ sortedExamples # getFeatureExamples(selectedFeature)
    /\ data = response[1].body.value

\* C20: whenever the page is rendered after a successful load, the selected
\* feature id is null if the ranked list of the selected dataset is empty
\* and otherwise the feature_idx of a feature of that list; the selected
\* feature is null for an empty list and otherwise the feature of the list
\* with that id.
C20_SelectedIdInRankedList ==
    Rendered =>
        /\ IsNull(selectedFeatureId) <=> Len(features) = 0
        /\ Len(features) > 0 =>
               \E i \in 1..Len(features) : features[i].feature_idx = selectedFeatureId
        /\ IF Len(features) = 0 THEN IsNull(selectedFeature)
           ELSE /\ selectedFeature[1] \in Range(features)
                /\ selectedFeature[1].feature_idx = selectedFeatureId

\* The second dataset has been selected; its ranked list has one feature,
\* the feature 2 of the dataset, and that one is selected.
C20_Witness ==
    /\ Rendered
    /\ Len(datasets) = 2
    /\ selectedDataset = Some(datasets[2])
    /\ Len(Get(data, datasets[2])) = 2
    /\ Len(features) = 1
    /\ selectedFeatureId = Some(2)

SignificanceClasses == {"row-positive", "row-negative", "row-neutral"}

\* C24 as claimed: the class names of every feature row hold exactly one of
\* row-positive, row-negative and row-neutral.
C24_ExactlyOneSignificanceClass ==
    fnName \in {"featureRowClassName", "featureRowClassName_v3"} =>
        Cardinality({k \in 1..Len(fnOut.value) : fnOut.value[k] \in SignificanceClasses}) = 1

\* The id the settled view has for a ranked list: that of its first
\* feature, or null for an empty list.
FirstId(feats) == IF Len(feats) = 0 THEN Null ELSE feats[1].feature_idx

\* A dataset was switched to and the effects have not run yet.
Switched ==
    /\ pc = "done" /\ IsNull(error) /\ effectPending
    /\ ~IsNull(selectedDataset)
    /\ IsNull(selectedFeatureId)

\* The view has settled with the first feature of the ranked list of the
\* selected dataset selected, or none when the list is empty.
SettledOnFirst ==
    /\ Rendered
    /\ selectedFeatureId = FirstId(features)
    /\ selectedFeature = (IF Len(features) = 0 THEN Null ELSE Some(features[1]))

\* C21: a step that selects a dataset other than the selected one makes it
\* the selected dataset and sets the selected feature id to null; from
\* there, with that dataset staying selected until the effects have run,
\* the view settles with the first feature of the ranked list of that
\* dataset as the selected feature, or with none when the list is empty.
C21_SwitchSettlesOnFirst ==
    /\ [][\A i \in 1..Len(datasets) :
             (Some(datasets[i]) # selectedDataset /\ handleDatasetSelect(datasets[i])) =>
                 (selectedDataset' = Some(datasets[i]) /\ IsNull(selectedFeatureId'))]_vars
    /\ [][(pc = "done" /\ effectPending) => selectedDataset' = selectedDataset]_vars
    /\ Switched ~> SettledOnFirst

\* The second feature of the first dataset was selected, then the second
\* dataset; the view has settled on the first feature of its list.
C21_Witness ==
    /\ Rendered
    /\ Len(datasets) = 2
    /\ selectedDataset = Some(datasets[2])
    /\ Len(features) = 2
    /\ selectedFeatureId = features[1].feature_idx
    /\ features[1] \notin Range(Get(data, datasets[1]))

\* After the load: an error with no data and no datasets, or no error.
ErrorState == ~IsNull(error) /\ data = <<>> /\ datasets = <<>> /\ IsNull(selectedDataset)

ReadyState == IsNull(error)

\* C22: isLoading becomes false; once it is false it stays false, the
\* state is an error state (error set, no data, no datasets) or a ready
\* state (no error), and no step turns the one into the other.
C22_LoadTerminatesAndStays ==
    /\ <>(~isLoading)
    /\ [](~isLoading => (ErrorState \/ ReadyState))
    /\ [][~isLoading => (~isLoading' /\ (IsNull(error') <=> IsNull(error)))]_vars

\* The load has failed on a response that is not JSON and the error is
\* shown.
C22_Witness ==
    /\ pc = "done"
    /\ ~isLoading
    /\ error = Some(ErrorMsg("missing_or_invalid_json", Null))
    /\ data = <<>>
    /\ datasets = <<>>

\* C23: a toggleSort step changes the sort direction to the other one and
\* leaves the data, the datasets, the selected dataset and the selected
\* feature id as they are; the ranked list keeps its features, the effect
\* that follows keeps the selected feature id, and a second toggle gives
\* the direction and the ranked list from before the first.
C23_ToggleChangesOnlyDirection ==
    [][toggleSort =>
          /\ sortDirection' # sortDirection
          /\ sortDirection' \in {SORT_ASC, SORT_DESC}
          /\ UNCHANGED <<data, datasets, selectedDataset, selectedFeatureId, isLoading, error>>
          /\ Range(features') = Range(features)
          /\ repairedFeatureId(features', selectedFeatureId') = selectedFeatureId
          /\ toggled(sortDirection') = sortDirection
          /\ featuresOf(data', selectedDataset', toggled(sortDirection')) = features]_vars

\* The sort is ascending and the selected feature, first of the descending
\* list, stands second.
C23_Witness ==
    /\ Rendered
    /\ sortDirection = SORT_ASC
    /\ Len(features) = 2
    /\ selectedFeatureId = features[2].feature_idx
    /\ featuresOf(data, selectedDataset, SORT_DESC) = <<features[2], features[1]>>

\* C25: a step that selects the dataset that is selected already leaves the
\* selected dataset, the selected feature id and the sort direction, and
\* everything else, unchanged.
C25_SameDatasetIsNoOp ==
    [][\A i \in 1..Len(datasets) :
          (Some(datasets[i]) = selectedDataset /\ handleDatasetSelect(datasets[i])) =>
              UNCHANGED vars]_vars

\* The second feature of the list is selected by the user, the sort is
\* ascending and there are two tabs: the tab of the selected dataset can be
\* clicked.
C25_Witness ==
    /\ Rendered
    /\ Len(datasets) = 2
    /\ selectedDataset = Some(datasets[1])
    /\ sortDirection = SORT_ASC
    /\ Len(features) = 2
    /\ selectedFeatureId = FirstId(featuresOf(data, selectedDataset, SORT_DESC))
    /\ ENABLED handleDatasetSelect(datasets[1])

====
